---- MODULE Spec2Model ----
(***************************************************************************)
(* Model of new.py, a Streamlit dashboard over ai_job_market_insights.csv. *)
(*                                                                         *)
(* Streamlit runs the whole script top to bottom once when the session     *)
(* starts and once more after every widget interaction.  A state of the    *)
(* model is the state left behind by the last script run: the memo of      *)
(* load_data, the module-level df, the values the three widgets returned   *)
(* and the elements the run put on the page, in script order.  The CSV     *)
(* file on disk is the environment.                                        *)
(***************************************************************************)
EXTENDS Integers, Sequences, FiniteSets, TLC

VARIABLES disk, cache, reads, df, page, plot_option, show_raw, output, error

vars == <<disk, cache, reads, df, page, plot_option, show_raw, output, error>>

(***************************************************************************)
(* Bounds and input domains                                                *)
(***************************************************************************)
MaxRows == 3

MaxReads == 3

NaN == "NaN"

Columns ==
    <<"Job_Title", "Industry", "Company_Size", "AI_Adoption_Level",
      "Salary_USD", "Remote_Friendly", "Job_Growth_Projection">>

NumericColumns == {"Salary_USD"}

\* Job listings the file may hold: every Company_Size (or none) and both
\* Remote_Friendly flags occur, the other fields are held fixed.
Listings ==
    { <<"Small", "Yes">>, <<"Small", "No">>, <<"Medium", "No">>,
      <<"Large", "Yes">>, <<NaN, "No">> }

Records ==
    { [Job_Title |-> "Engineer", Industry |-> "Tech", Company_Size |-> l[1],
       AI_Adoption_Level |-> "High", Salary_USD |-> 100,
       Remote_Friendly |-> l[2], Job_Growth_Projection |-> "Growth"] :
         l \in Listings }

Tables == UNION { [1..n -> Records] : n \in 1..MaxRows }

FileStates == {"ok", "missing", "unreadable", "malformed"}

(***************************************************************************)
(* Widgets' option lists                                                   *)
(***************************************************************************)
Pages == <<"Overview", "Exploratory Data Analysis", "Visualizations">>

PlotOptions ==
    <<"Company Size Distribution", "Job Title Distribution",
      "AI Adoption by Industry", "Salary Trends by Industry",
      "Remote Work Analysis", "Job Growth Projection Analysis">>

NoPage == "none"

NoPlot == "none"

NoTable == <<>>

Range(s) == { s[i] : i \in DOMAIN s }

El(kind, view, data) == [kind |-> kind, view |-> view, data |-> data]

(***************************************************************************)
(* pandas operations used by the script                                    *)
(***************************************************************************)
Column(t, c) == [i \in DOMAIN t |-> t[i][c]]

head(t) == SubSeq(t, 1, IF Len(t) < 5 THEN Len(t) ELSE 5)

shape(t) == <<Len(t), Len(Columns)>>

isnull_sum(t) ==
    [c \in Range(Columns) |->
        IF c \in NumericColumns THEN 0
        ELSE Cardinality({i \in DOMAIN t : t[i][c] = NaN})]

\* duplicated(keep=False): every member of a group of equal rows is marked.
duplicated_keepFalse(t) ==
    [i \in DOMAIN t |-> \E j \in DOMAIN t \ {i} : t[j] = t[i]]

duplicated(t) == [i \in DOMAIN t |-> \E j \in 1..(i - 1) : t[j] = t[i]]

duplicated_sum(t) == Cardinality({i \in DOMAIN t : duplicated(t)[i]})

dtype(t, c) ==
    IF c \in NumericColumns THEN "int64"
    ELSE IF t = <<>> \/ \E i \in DOMAIN t : t[i][c] # NaN THEN "object"
    ELSE "float64"

RECURSIVE SeqSum(_)
SeqSum(s) == IF s = <<>> THEN 0 ELSE s[1] + SeqSum(Tail(s))

describe(t) ==
    [c \in NumericColumns |->
        LET col == Column(t, c) IN
        [count |-> Len(col),
         mean  |-> <<SeqSum(col), Len(col)>>,
         min   |-> IF col = <<>> THEN 0
                   ELSE CHOOSE m \in Range(col) : \A v \in Range(col) : m <= v,
         max   |-> IF col = <<>> THEN 0
                   ELSE CHOOSE m \in Range(col) : \A v \in Range(col) : m >= v]]

info(t) ==
    [i \in DOMAIN Columns |->
        [column   |-> Columns[i],
         non_null |-> Len(t) - isnull_sum(t)[Columns[i]],
         dtype    |-> dtype(t, Columns[i])]]

RECURSIVE uniqueFrom(_, _)
uniqueFrom(col, seen) ==
    IF col = <<>> THEN <<>>
    ELSE IF col[1] \in seen THEN uniqueFrom(Tail(col), seen)
    ELSE <<col[1]>> \o uniqueFrom(Tail(col), seen \cup {col[1]})

unique(t, c) == uniqueFrom(Column(t, c), {})

\* nunique(dropna=False): the missing value is counted as one more value.
nunique_keepna(t, c) == Cardinality(Range(Column(t, c)))

nunique(t, c) == Cardinality({v \in Range(Column(t, c)) : v # NaN})

value_counts(t, c) ==
    [v \in {w \in Range(Column(t, c)) : w # NaN} |->
        Cardinality({i \in DOMAIN t : t[i][c] = v})]

(***************************************************************************)
(* Chart routines.  A routine that raises yields a "raise" step naming the *)
(* exception; otherwise it yields the figure handed to st.pyplot.          *)
(***************************************************************************)
Raise(view, exc) == El("raise", view, exc)

\* Series.plot(kind='pie', explode=...) / Axes.pie: pandas refuses an empty
\* series, matplotlib requires len(explode) = len(x).  Offsets are written
\* in hundredths (8 for 0.08); <<>> stands for no explode argument.
pie(x, explode, title) ==
    IF DOMAIN x = {} THEN Raise("Visualizations", "TypeError")
    ELSE IF explode # <<>> /\ Len(explode) # Cardinality(DOMAIN x)
         THEN Raise("Visualizations", "ValueError")
    ELSE El("pyplot", "Visualizations",
            [chart |-> "pie", title |-> title, wedges |-> x,
             explode |-> explode])

countplot(t, x, hue, title) ==
    El("pyplot", "Visualizations",
       [chart |-> "countplot", title |-> title,
        bars |-> [p \in {<<t[i][x], t[i][hue]>> : i \in DOMAIN t} |->
                     Cardinality({i \in DOMAIN t :
                                     <<t[i][x], t[i][hue]>> = p})]])

lineplot(t, x, y, hue, title) ==
    El("pyplot", "Visualizations",
       [chart |-> "lineplot", title |-> title,
        points |-> [p \in {<<t[i][x], t[i][hue]>> : i \in DOMAIN t} |->
                       LET rows == {i \in DOMAIN t :
                                       <<t[i][x], t[i][hue]>> = p}
                           RECURSIVE Sum(_)
                           Sum(S) == IF S = {} THEN 0
                                     ELSE LET i == CHOOSE k \in S : TRUE
                                          IN t[i][y] + Sum(S \ {i})
                       IN <<Sum(rows), Cardinality(rows)>>]])

(***************************************************************************)
(* The three pages and the raw-data block, as the steps the script takes   *)
(***************************************************************************)
OverviewPage(t) ==
    << El("header", "Overview", "Dataset Overview"),
       El("subheader", "Overview", "Data Snapshot"),
       El("dataframe", "Overview", head(t)),
       El("subheader", "Overview", "Dataset Shape"),
       El("write", "Overview", shape(t)),
       El("subheader", "Overview", "Missing and Duplicate Values"),
       El("write", "Overview", "Missing Values per Column:"),
       El("missing", "Overview", isnull_sum(t)),
       El("duplicates", "Overview", duplicated_sum(t)),
       El("subheader", "Overview", "Descriptive Statistics (Numerical)"),
       El("describe", "Overview", describe(t)) >>

RECURSIVE CategoricalBlocks(_, _)
CategoricalBlocks(t, cols) ==
    IF cols = <<>> THEN <<>>
    ELSE (IF dtype(t, cols[1]) = "object"
          THEN << El("markdown", "Exploratory Data Analysis", cols[1]),
                  El("unique", "Exploratory Data Analysis",
                     [column |-> cols[1], values |-> unique(t, cols[1])]),
                  El("nunique", "Exploratory Data Analysis",
                     [column |-> cols[1], n |-> nunique(t, cols[1])]),
                  El("write", "Exploratory Data Analysis", "---") >>
          ELSE <<>>)
         \o CategoricalBlocks(t, Tail(cols))

EDAPage(t) ==
    << El("header", "Exploratory Data Analysis",
          "Exploratory Data Analysis (EDA)"),
       El("subheader", "Exploratory Data Analysis", "DataFrame Info"),
       El("text", "Exploratory Data Analysis", info(t)),
       El("subheader", "Exploratory Data Analysis",
          "Unique Values in Categorical Columns") >>
    \o CategoricalBlocks(t, Columns)

Sub(text) == El("subheader", "Visualizations", text)

Chart(t, opt) ==
    CASE opt = "Company Size Distribution" ->
           << Sub("Distribution of Company Size (Pie Chart)"),
              pie(value_counts(t, "Company_Size"), <<8, 0, 0>>,
                  "Distribution of Company Size") >>
      [] opt = "Job Title Distribution" ->
           << Sub("Distribution of Job Titles (Pie Chart)"),
              pie(value_counts(t, "Job_Title"), <<>>,
                  "Distribution of Job Titles") >>
      [] opt = "AI Adoption by Industry" ->
           << Sub("AI Adoption Level Across Different Industries"),
              countplot(t, "AI_Adoption_Level", "Industry",
                        "AI Adoption Level Across Different Industries") >>
      [] opt = "Salary Trends by Industry" ->
           << Sub("Salary Across Different Industries with AI Adoption Level"),
              lineplot(t, "Industry", "Salary_USD", "AI_Adoption_Level",
                       "Salary Trends by Industry") >>
      [] opt = "Remote Work Analysis" ->
           << Sub("Remote Work Analysis"),
              El("write", "Visualizations",
                 "*Remote Friendly Distribution (Pie Chart):*"),
              pie(value_counts(t, "Remote_Friendly"), <<8, 0>>,
                  "Remote Friendly Distribution"),
              El("write", "Visualizations",
                 "*Remote Work Availability by Industry (Count Plot):*"),
              countplot(t, "Industry", "Remote_Friendly",
                        "Remote Work Availability by Industry") >>
      [] opt = "Job Growth Projection Analysis" ->
           << Sub("Job Growth Projection Analysis"),
              countplot(t, "Job_Growth_Projection", "Industry",
                        "Job Growth Projection Across Different Industries") >>
      [] OTHER -> <<>>

VisualizationsPage(t, opt) ==
    << El("header", "Visualizations", "Visualizations"),
       El("selectbox", "Visualizations", PlotOptions) >>
    \o Chart(t, opt)

\* The chain written as independent ifs whose first test is always taken.
PageSteps_fallthrough(t, pg, opt) ==
    OverviewPage(t)
    \o (IF pg = "Exploratory Data Analysis" THEN EDAPage(t)
        ELSE IF pg = "Visualizations" THEN VisualizationsPage(t, opt)
        ELSE <<>>)

PageSteps(t, pg, opt) ==
    IF pg = "Overview" THEN OverviewPage(t)
    ELSE IF pg = "Exploratory Data Analysis" THEN EDAPage(t)
    ELSE IF pg = "Visualizations" THEN VisualizationsPage(t, opt)
    ELSE <<>>

RawData(t, raw) ==
    << El("checkbox", "sidebar", "Show Raw Data") >>
    \o (IF raw THEN << El("subheader", "raw", "Raw Dataset"),
                       El("dataframe", "raw", t) >>
        ELSE <<>>)

(***************************************************************************)
(* load_data and one run of the script                                     *)
(***************************************************************************)
LoadErrors == {"FileNotFoundError", "PermissionError", "ParserError"}

read_csv(dsk) ==
    CASE dsk.status = "ok"         -> [err |-> "none", table |-> dsk.rows]
      [] dsk.status = "missing"    -> [err |-> "FileNotFoundError",
                                       table |-> NoTable]
      [] dsk.status = "unreadable" -> [err |-> "PermissionError",
                                       table |-> NoTable]
      [] OTHER                     -> [err |-> "ParserError",
                                       table |-> NoTable]

\* load_data without the cache decorator: every call reads the file.
load_data_uncached(cch, dsk) ==
    LET r == read_csv(dsk) IN
    [err |-> r.err, table |-> r.table,
     cache |-> IF r.err = "none" THEN <<r.table>> ELSE cch,
     read |-> TRUE]

\* load_data with the read wrapped in a try/except that returns an empty
\* table.
load_data_swallow(cch, dsk) ==
    IF cch # <<>>
    THEN [err |-> "none", table |-> cch[1], cache |-> cch, read |-> FALSE]
    ELSE LET r == read_csv(dsk) IN
         [err |-> "none", table |-> r.table,
          cache |-> IF r.err = "none" THEN <<r.table>> ELSE <<>>,
          read |-> TRUE]

\* @st.cache_data: a stored result is returned without running the body;
\* a body that raises stores nothing.
load_data(cch, dsk) ==
    IF cch # <<>>
    THEN [err |-> "none", table |-> cch[1], cache |-> cch, read |-> FALSE]
    ELSE LET r == read_csv(dsk) IN
         [err |-> r.err, table |-> r.table,
          cache |-> IF r.err = "none" THEN <<r.table>> ELSE <<>>,
          read |-> TRUE]

AppHead ==
    << El("title", "app", "AI-Powered Job Market Insights"),
       El("write", "app", "description"),
       El("title", "sidebar", "Navigation"),
       El("radio", "sidebar", Pages) >>

ScriptSteps(ld, pg, opt, raw) ==
    IF ld.err # "none" THEN << Raise("app", ld.err) >>
    ELSE AppHead \o PageSteps(ld.table, pg, opt) \o RawData(ld.table, raw)

\* An uncaught exception ends the run; Streamlit shows it in place of the
\* rest of the page.
RECURSIVE Rendered(_)
Rendered(steps) ==
    IF steps = <<>> THEN <<>>
    ELSE IF steps[1].kind = "raise"
         THEN << El("exception", steps[1].view, steps[1].data) >>
    ELSE << steps[1] >> \o Rendered(Tail(steps))

Raised(steps) ==
    IF \E i \in DOMAIN steps : steps[i].kind = "raise"
    THEN LET i == CHOOSE k \in DOMAIN steps :
                    /\ steps[k].kind = "raise"
                    /\ \A j \in 1..(k - 1) : steps[j].kind # "raise"
         IN steps[i].data
    ELSE "none"

\* The state one run of the script leaves behind, given the memo, the file
\* and the values the session holds for the three widgets.
Script(cch, dsk, pg, opt, raw) ==
    LET ld    == load_data(cch, dsk)
        steps == ScriptSteps(ld, pg, opt, raw)
    IN [cache       |-> ld.cache,
        read        |-> ld.read,
        df          |-> ld.table,
        page        |-> IF ld.err = "none" THEN pg ELSE NoPage,
        plot_option |-> IF ld.err = "none" /\ pg = "Visualizations"
                        THEN opt ELSE NoPlot,
        output      |-> Rendered(steps),
        error       |-> Raised(steps)]

CountRead(n, read) == IF read /\ n < MaxReads THEN n + 1 ELSE n

\* A widget the run did not reach either keeps or loses its session value,
\* depending on how the runtime cleans up after a run that stopped early.
CheckboxAfter(r, raw) == IF r.error = "none" THEN {raw} ELSE {raw, FALSE}

Rerun(pg, opt, raw) ==
    LET r == Script(cache, disk, pg, opt, raw) IN
    /\ cache' = r.cache
    /\ reads' = CountRead(reads, r.read)
    /\ df' = r.df
    /\ page' = r.page
    /\ plot_option' = r.plot_option
    /\ output' = r.output
    /\ error' = r.error
    /\ show_raw' \in CheckboxAfter(r, raw)
    /\ UNCHANGED disk

(***************************************************************************)
(* Initial state: the first run of a new session, widgets at defaults      *)
(***************************************************************************)
Init ==
    /\ disk \in { [status |-> st, rows |-> IF st = "ok" THEN t ELSE NoTable] :
                    st \in FileStates, t \in Tables }
    /\ LET r == Script(<<>>, disk, Pages[1], PlotOptions[1], FALSE) IN
       /\ cache = r.cache
       /\ reads = CountRead(0, r.read)
       /\ df = r.df
       /\ page = r.page
       /\ plot_option = r.plot_option
       /\ output = r.output
       /\ error = r.error
       /\ show_raw = FALSE

(***************************************************************************)
(* User interactions: each one sets a widget and reruns the script         *)
(***************************************************************************)
Shown(kind) == \E i \in DOMAIN output : output[i].kind = kind

SelectPage ==
    /\ Shown("radio")
    /\ \E p \in Range(Pages) :
         /\ p # page
         /\ Rerun(p, PlotOptions[1], show_raw)

SelectPlot ==
    /\ Shown("selectbox")
    /\ \E o \in Range(PlotOptions) :
         /\ o # plot_option
         /\ Rerun(page, o, show_raw)

\* A checkbox whose rerun drops the selectbox's session value.
ToggleRaw_resets ==
    /\ Shown("checkbox")
    /\ Rerun(page, PlotOptions[1], ~show_raw)

ToggleRaw ==
    /\ Shown("checkbox")
    /\ Rerun(page, plot_option, ~show_raw)

(***************************************************************************)
(* Environment: the CSV file is deleted, or rewritten without its last row *)
(***************************************************************************)
FileChange ==
    /\ disk.status = "ok"
    /\ \/ disk' = [status |-> "missing", rows |-> NoTable]
       \/ /\ Len(disk.rows) > 1
          /\ disk' = [status |-> "ok",
                      rows |-> SubSeq(disk.rows, 1, Len(disk.rows) - 1)]
    /\ UNCHANGED <<cache, reads, df, page, plot_option, show_raw, output,
                   error>>

Next == SelectPage \/ SelectPlot \/ ToggleRaw \/ FileChange

Spec == Init /\ [][Next]_vars

TypeOK ==
    /\ page \in Range(Pages) \cup {NoPage}
    /\ plot_option \in Range(PlotOptions) \cup {NoPlot}
    /\ show_raw \in BOOLEAN
    /\ reads \in 0..MaxReads
    /\ Len(cache) <= 1

(***************************************************************************)
(* Properties                                                              *)
(***************************************************************************)
Loaded == page # NoPage

\* A dataset without a missing entry in any text column.
Complete(t) ==
    \A i \in DOMAIN t : \A c \in Range(Columns) \ NumericColumns :
        t[i][c] # NaN

PageHeader(p) ==
    CASE p = "Overview" -> "Dataset Overview"
      [] p = "Exploratory Data Analysis" -> "Exploratory Data Analysis (EDA)"
      [] OTHER -> "Visualizations"

Charts(out) == SelectSeq(out, LAMBDA e : e.kind = "pyplot")

Distinct(t, c) == Range(Column(t, c))

\* C1: after any interactions exactly one of the three views is active, and
\* the page shows that view's output (its header first) and no element of
\* either other view.
C1_OneViewRendered ==
    Loaded =>
      /\ Cardinality({p \in Range(Pages) : p = page}) = 1
      /\ \A i \in DOMAIN output :
            output[i].view \in Range(Pages) => output[i].view = page
      /\ \E i \in DOMAIN output :
            /\ output[i].kind = "header"
            /\ output[i].view = page
            /\ output[i].data = PageHeader(page)
            /\ \A j \in 1..(i - 1) : output[j].view \notin Range(Pages)

C1_Witness ==
    /\ page = "Exploratory Data Analysis"
    /\ show_raw
    /\ Len(df) = MaxRows

\* C2: a flip of the Show Raw Data checkbox leaves the file, the loaded
\* Dataset, the page selection and the chart selection as they were.
C2_ToggleFrame ==
    [][ToggleRaw => /\ disk' = disk
                    /\ cache' = cache
                    /\ df' = df
                    /\ page' = page
                    /\ plot_option' = plot_option]_vars

C2_Witness ==
    /\ show_raw
    /\ page = "Visualizations"
    /\ plot_option = "Job Title Distribution"
    /\ error = "none"

\* C3: the file is read by the first call of load_data only, and every later
\* call returns the table the first call returned, whatever has happened to
\* the file since.
C3_Memoized ==
    /\ [](reads <= 1)
    /\ [][df # NoTable => (df' = df /\ reads' = reads /\ cache' = <<df>>)]_vars

C3_Witness ==
    /\ reads = 1
    /\ df # NoTable
    /\ disk.rows # df
    /\ page = "Visualizations"
    /\ show_raw

\* C4: when Company_Size (or Remote_Friendly) holds one distinct value, the
\* pie chart of that column is rendered with one wedge and no error is
\* raised.
C4_SingleCategoryRenders ==
    /\ (/\ plot_option = "Company Size Distribution"
        /\ Cardinality(Distinct(df, "Company_Size")) = 1
        /\ NaN \notin Distinct(df, "Company_Size"))
       => /\ error = "none"
          /\ Len(Charts(output)) = 1
          /\ Charts(output)[1].data.chart = "pie"
          /\ Cardinality(DOMAIN Charts(output)[1].data.wedges) = 1
    /\ (/\ plot_option = "Remote Work Analysis"
        /\ Cardinality(Distinct(df, "Remote_Friendly")) = 1)
       => /\ error = "none"
          /\ Len(Charts(output)) = 2
          /\ Charts(output)[1].data.chart = "pie"
          /\ Cardinality(DOMAIN Charts(output)[1].data.wedges) = 1

\* C5: no switch of the navigation radio among the three pages ends in a
\* run that raises an error, whatever well-formed dataset was loaded.
C5_NavigationNeverRaises ==
    [][(SelectPage /\ Complete(df)) => error' = "none"]_vars

\* C6: the chart selector is on the page exactly when Visualizations is
\* active and offers six options; the run renders one chart for the selected
\* option, or the pie followed by the grouped bars for Remote Work Analysis.
C6_SelectedChartOnly ==
    (Loaded /\ Complete(df)) =>
      /\ Shown("selectbox") <=> page = "Visualizations"
      /\ \A i \in DOMAIN output :
            output[i].kind = "selectbox" => Len(output[i].data) = 6
      /\ page # "Visualizations" => Charts(output) = <<>>
      /\ (page = "Visualizations" /\ plot_option # "Remote Work Analysis")
            => Len(Charts(output)) = 1
      /\ (page = "Visualizations" /\ plot_option = "Remote Work Analysis")
            => /\ Len(Charts(output)) = 2
               /\ Charts(output)[1].data.chart = "pie"
               /\ Charts(output)[2].data.chart = "countplot"

EndsWithRaw(out, t) ==
    /\ Len(out) >= 2
    /\ out[Len(out)].kind = "dataframe"
    /\ out[Len(out)].view = "raw"
    /\ out[Len(out)].data = t
    /\ \E i \in 1..(Len(out) - 1) : out[i].view \in Range(Pages)
    /\ \A i \in DOMAIN out :
          out[i].view = "raw" =>
            \A j \in DOMAIN out : out[j].view \in Range(Pages) => j < i

NoRaw(out) == \A i \in DOMAIN out : out[i].view # "raw"

\* C7: a re-render made while the toggle is enabled ends with the whole
\* Dataset below the active view's output, whatever page and chart are
\* selected; one made while it is disabled shows no raw table.
C7_RawTableAppended ==
    [][Complete(df) =>
       /\ ((SelectPage \/ SelectPlot) /\ show_raw)
            => EndsWithRaw(output', df')
       /\ ((SelectPage \/ SelectPlot) /\ ~show_raw) => NoRaw(output')
       /\ (ToggleRaw /\ ~show_raw) => EndsWithRaw(output', df')
       /\ (ToggleRaw /\ show_raw) => NoRaw(output')]_vars

\* C8: when the file cannot be read or parsed, load_data fails, the error is
\* shown to the user, and the session shows no view, chart or raw table.
C8_LoadFailureFatal ==
    (disk.status # "ok" /\ cache = <<>>) =>
      /\ error \in LoadErrors
      /\ df = NoTable
      /\ Len(output) = 1
      /\ output[1].kind = "exception"
      /\ output[1].data = error
      /\ ~Shown("radio") /\ ~Shown("selectbox") /\ ~Shown("checkbox")

C8_Witness ==
    /\ disk.status = "malformed"
    /\ error = "ParserError"
    /\ reads = 1

DuplicateFigures == { output[i].data : i \in {k \in DOMAIN output :
                                                 output[k].kind = "duplicates"} }

\* C9 as stated: Total Duplicate Rows is the number of records that have at
\* least one other fully identical record.
C9_DuplicatesPairwise ==
    page = "Overview" =>
      DuplicateFigures =
        { Cardinality({i \in DOMAIN df :
                          \E j \in DOMAIN df : j # i /\ df[j] = df[i]}) }

\* C9 amended: Total Duplicate Rows is the number of records beyond the first
\* occurrence of each distinct record, i.e. rows minus distinct records.
C9_DuplicatesBeyondFirst ==
    page = "Overview" =>
      DuplicateFigures = { Len(df) - Cardinality(Range(df)) }

C9_Witness ==
    /\ page = "Overview"
    /\ Len(df) >= 3
    /\ Cardinality(Range(df)) = 1

Blocks(kind) == SelectSeq(output, LAMBDA e : e.kind = kind)

ObjectColumns == SelectSeq(Columns, LAMBDA c : dtype(df, c) = "object")

\* C10 as stated: for every text column, in column order, the number of
\* unique values reported is the size of the set of values shown for the
\* column and the length of the list shown.
C10_CountMatchesList ==
    page = "Exploratory Data Analysis" =>
      /\ Len(Blocks("nunique")) = Len(ObjectColumns)
      /\ Len(Blocks("unique")) = Len(ObjectColumns)
      /\ \A k \in DOMAIN ObjectColumns :
            /\ Blocks("nunique")[k].data.column = ObjectColumns[k]
            /\ Blocks("unique")[k].data.column = ObjectColumns[k]
            /\ Blocks("nunique")[k].data.n
                 = Len(Blocks("unique")[k].data.values)
            /\ Blocks("nunique")[k].data.n
                 = Cardinality(Range(Blocks("unique")[k].data.values))

Missing(c) == IF NaN \in Distinct(df, c) THEN 1 ELSE 0

\* C10 amended: for every text column, in column order, the number reported
\* is the number of distinct non-missing values; the list shown has that
\* many entries plus one entry for the missing value when the column has
\* missing entries.
C10_CountExcludesMissing ==
    page = "Exploratory Data Analysis" =>
      /\ Len(Blocks("nunique")) = Len(ObjectColumns)
      /\ Len(Blocks("unique")) = Len(ObjectColumns)
      /\ \A k \in DOMAIN ObjectColumns :
            LET c == ObjectColumns[k] IN
            /\ Blocks("nunique")[k].data.column = c
            /\ Blocks("unique")[k].data.column = c
            /\ Blocks("nunique")[k].data.n
                 = Cardinality(Distinct(df, c) \ {NaN})
            /\ Len(Blocks("unique")[k].data.values)
                 = Blocks("nunique")[k].data.n + Missing(c)
            /\ Range(Blocks("unique")[k].data.values) = Distinct(df, c)

C10_Witness ==
    /\ page = "Exploratory Data Analysis"
    /\ NaN \in Distinct(df, "Company_Size")
    /\ Cardinality(Distinct(df, "Company_Size")) = 3

====
